---- MODULE Spec2Model ----
(***************************************************************************)
(* A model of teloxide's dispatching2 core:                                *)
(*   - utils/shutdown_token.rs : the ShutdownToken tri-state handshake     *)
(*     (AtomicU8 state + tokio Notify), with its callers and the           *)
(*     dispatcher loop that drives start_dispatching / is_shutting_down /  *)
(*     done;                                                               *)
(*   - dispatching2/dialogue/mod.rs : the Dialogue handle over a shared    *)
(*     Storage.                                                            *)
(* The dispatcher loop (dispatching2/dispatcher.rs) and the Storage        *)
(* backends are not part of the sources at hand; they are modelled from    *)
(* the design document and marked so where they are defined.               *)
(***************************************************************************)
EXTENDS Naturals, FiniteSets, Sequences, TLC

\* ------------------------------------------------------------------ bounds
NCallers == 2
NLoops == 2
MaxUpdates == 2
NChats == 2
NHandles == 3
NEvals == 2
DurationMax == 63

Callers == 1..NCallers
Loops == 1..NLoops
Updates == 1..MaxUpdates
ChatIds == 1..NChats
Handles == 1..NHandles
Evals == 1..NEvals

VARIABLES
    inner,        \* DispatcherState.inner : AtomicU8
    waiters,      \* shutdown_notify_back : the Notified futures registered on the Notify
    cpc,          \* per shutdown() call: init | ok | waiting | resolved | err
    lpc,          \* per dispatch call: idle | wait | check | drain | done_load |
                  \*                    done_notify | done_store | finished | panicked
    pending,      \* per dispatch call: the update just taken from the source (0: none)
    ustat,        \* per update: new | taken | inflight | finished | rejected
    okCycle,      \* history: the cycle in which a call's shutdown() returned Ok (0: none)
    resolvedAt,   \* history: the cycle whose done() resolved the call's future (0: none)
    snap,         \* history: the evaluations in flight when shutdown() was called
                  \*          (kept until done() ends that dispatch cycle)
    storage,      \* the shared Storage: chat id -> dialogue state, or "None"
    hpc,          \* per Dialogue handle: ready | god_write (get_or_default read None)
    last,         \* the handle operation that returned last, and what it returned
    lastWrite,    \* history: per chat id, what the last successful write stored
                  \*          ("Removed": a record was removed; "None": never written)
    lastWriter,   \* history: per chat id, the operation that wrote or removed last
                  \*          and the handle it was called on
    backend,      \* history: the storage call of the last step and whether it succeeded
    evals,        \* the tree evaluations, in the order the updates were delivered:
                  \*   upd     : the update (what the filters see in it)
                  \*   pc      : root | branch | hook | done
                  \*   child   : the branch being tried (0: none yet)
                  \*   outcome : None | Handled | NotHandled | Failed
                  \*   ran     : the endpoints that have run
                  \*   hooks   : the dispatcher hooks invoked for it
    aborted,      \* the dispatcher's main loop was taken down
    hint,         \* UpdateListener::timeout_hint(): <<>> (None) or <<seconds>>
    timeout       \* what shutdown_check_timeout_for returned: <<seconds>>
                  \*          (<<>>: not called since the hint was taken)

svars == <<inner, waiters, cpc, lpc, pending, ustat, okCycle, resolvedAt, snap>>

dvars == <<storage, hpc, last, lastWrite, lastWriter, backend>>

tvars == <<evals, aborted>>

qvars == <<hint, timeout>>

vars == <<svars, dvars, tvars, qvars>>

\* ------------------------------------------------- ShutdownState / AtomicU8
ShutdownStates == {"Running", "ShuttingDown", "Idle"}

\* `ShutdownState as u8` of the #[repr(u8)] enum: declaration order.
AsU8(s) ==
    CASE s = "Running" -> 0
      [] s = "ShuttingDown" -> 1
      [] s = "Idle" -> 2

FromU8(n) ==
    CASE n = 0 -> "Running"
      [] n = 1 -> "ShuttingDown"
      [] n = 2 -> "Idle"
      [] OTHER -> "unreachable"

Load(a) == FromU8(a)

Store(a, new) == AsU8(new)

\* AtomicU8::compare_exchange mapped through from_u8 on both sides.
CompareExchange(a, current, new) ==
    IF a = AsU8(current)
    THEN [inner |-> AsU8(new), ok |-> TRUE, val |-> FromU8(a)]
    ELSE [inner |-> a, ok |-> FALSE, val |-> FromU8(a)]


\* Mutation: the state is only read, the request is not recorded at the call.
ShutdownInner_NoTransition(a) ==
    [inner |-> a,
     res |-> IF FromU8(a) = "Running" THEN "Ok"
             ELSE IF FromU8(a) = "ShuttingDown" THEN "AlreadyShuttingDown"
             ELSE "IdleShutdownError"]

\* Mutation: an unconditional swap to ShuttingDown instead of the
\* compare_exchange from Running.
ShutdownInner_Swap(a) ==
    [inner |-> AsU8("ShuttingDown"),
     res |-> IF FromU8(a) = "Running" THEN "Ok"
             ELSE IF FromU8(a) = "ShuttingDown" THEN "AlreadyShuttingDown"
             ELSE "IdleShutdownError"]

ShutdownInner(a) ==
    LET res == CompareExchange(a, "Running", "ShuttingDown")
    IN  [inner |-> res.inner,
         res |-> IF res.ok THEN "Ok"
                 ELSE IF res.val = "ShuttingDown" THEN "AlreadyShuttingDown"
                 ELSE IF res.val = "Idle" THEN "IdleShutdownError"
                 ELSE "unreachable"]


\* Mutation: the idle error arm is folded into the Ok arm.
ShutdownReturns_IdleOk(res) == "ok"

\* The match of ShutdownToken::shutdown on shutdown_inner's result.
ShutdownReturns(res) ==
    IF res \in {"Ok", "AlreadyShuttingDown"} THEN "ok" ELSE "err"


\* Mutation: the state is matched against the wrong variant.
IsShuttingDown_WrongVariant(a) == Load(a) = "Idle"

IsShuttingDown(a) == Load(a) = "ShuttingDown"


\* Mutation: a plain store of Running instead of the compare_exchange.
StartDispatchingCas_Store(a) ==
    [inner |-> AsU8("Running"), ok |-> TRUE, val |-> FromU8(a)]

\* start_dispatching: the compare_exchange and whether it panics.
StartDispatchingCas(a) == CompareExchange(a, "Idle", "Running")


\* Mutation: notify_waiters() is called on both branches of done().
DoneNotifies_Always(a) == TRUE

\* done(): whether notify_waiters() is called, and the final store.
DoneNotifies(a) == IsShuttingDown(a)


\* Mutation: the store of Idle is done only on the shutdown branch.
DoneStored_OnlyAfterShutdown(a) ==
    IF Load(a) = "ShuttingDown" THEN AsU8("Idle") ELSE a

DoneStored(a) == Store(a, "Idle")

InFlight == {u \in Updates : ustat[u] = "inflight"}

Finished == {u \in Updates : ustat[u] = "finished"}

ActivePcs == {"wait", "check", "drain", "done_load", "done_notify", "done_store"}

ActiveLoops == {l \in Loops : lpc[l] \in ActivePcs}

\* The number of dispatch calls whose start_dispatching() succeeded so far.
cycle == Cardinality({l \in Loops : lpc[l] \notin {"idle", "panicked"}})

\* ------------------------------------------------------- Dialogue / Storage
\* The dialogue type D of the design document's scenario, and D::default().
DStates == {"Start", "AwaitingName", "Done"}

Default == "Start"

\* Storage (the in-process reference backend): one record per chat id.
StorageGet(st, chat) == st[chat]

StorageUpdate(st, chat, d) == [st EXCEPT ![chat] = d]

StorageRemove(st, chat) == [st EXCEPT ![chat] = "None"]

\* The chat id a handle was constructed with; handles h and h + NChats are clones.
ChatOf(h) == ((h - 1) % NChats) + 1

\* `state.into()` with D: From<State>; the states passed are of type D itself,
\* for which the conversion is the reflexive `impl From<T> for T`.
Into(state) == state

DialogueGet(st, chat) == StorageGet(st, chat)


\* Mutation: the write is dropped.
DialogueUpdate_Dropped(st, chat, state) == st


\* Mutation: the state is inserted only when no record exists.
DialogueUpdate_KeepExisting(st, chat, state) ==
    IF st[chat] = "None" THEN StorageUpdate(st, chat, Into(state)) ELSE st

DialogueUpdate(st, chat, state) == StorageUpdate(st, chat, Into(state))


\* Mutation: reset removes the record instead of storing the default.
DialogueReset_Remove(st, chat) == StorageRemove(st, chat)

DialogueReset(st, chat) == DialogueUpdate(st, chat, Default)


\* Mutation: exit leaves the record in place.
DialogueExit_Kept(st, chat) == st

\* Mutation: exit clears the whole store.
DialogueExit_Clear(st, chat) == [c \in DOMAIN st |-> "None"]

DialogueExit(st, chat) == StorageRemove(st, chat)

\* get_or_default after its read (`match self.get().await?`): the value or the
\* error returned at once, or "write" when the default has to be stored first.
GetOrDefaultRead(got) == IF got = "None" THEN "write" ELSE got


\* Mutation: the default is returned without being stored.
GetOrDefaultWrite_Skipped(st, chat) == st

GetOrDefaultWrite(st, chat) == StorageUpdate(st, chat, Default)

Returned(h, op, res) == [h |-> h, op |-> op, res |-> res]

\* A storage call and its outcome.
\* History: a write or removal and the handle it was called on.
WrittenBy(op, h) == [op |-> op, h |-> h]

Called(call, ok) == [call |-> call, ok |-> ok]

\* What the backend hands back: the record (or "None") of a get, "Unit" of an
\* update or remove, "Err" when the call failed.
BackendGet(ok, st, chat) == IF ok THEN StorageGet(st, chat) ELSE "Err"

BackendUnit(ok) == IF ok THEN "Unit" ELSE "Err"

\* Dialogue::get returns the backend's result as it is.
GetReturns(r) == r

\* Mutation: a failed write of the default is ignored.
GetOrDefaultReturns_Swallow(w) == Default

\* get_or_default: `update_dialogue(..).await?; Ok(D::default())`
GetOrDefaultReturns(w) == IF w = "Err" THEN "Err" ELSE Default

\* update: `update_dialogue(..).await?; Ok(())`
UpdateReturns(w) == IF w = "Err" THEN "Err" ELSE "Unit"

\* reset: `self.update(D::default()).await`
ResetReturns(w) == UpdateReturns(w)

\* exit returns the backend's result as it is.
ExitReturns(w) == w

\* ------------------------------------------------------------- handler tree
\* What the filters of the tree look at in an update.
Attrs == {"message", "group", "dice", "simple_command", "maintainer",
          "maintainer_command"}

\* The updates the source may deliver: only a message has a chat, a sender and
\* a content, and its content is a text, a dice or one command.
UpdateKinds ==
    {a \in SUBSET Attrs :
        /\ ("message" \notin a => a = {})
        /\ Cardinality(a \cap {"dice", "simple_command", "maintainer_command"}) <= 1}

\* Update::filter_message() with its four .branch(...) children, in the order
\* of their registration; each child is a chain of filters and an endpoint.
handler ==
    [filter   |-> "message",
     branches |-> <<
        [filters |-> <<"group">>, endpoint |-> "group_chat"],
        [filters |-> <<"dice">>, endpoint |-> "dice_value"],
        [filters |-> <<"simple_command">>, endpoint |-> "simple_commands_handler"],
        [filters |-> <<"maintainer", "maintainer_command">>,
         endpoint |-> "maintainer_commands"] >>]

default_handler == "default_handler"

error_handler == "error_handler"

NBranches == Len(handler.branches)

\* A filter passes an update that has what it looks for.
Passes(f, upd) == f \in upd

\* A chain of filters in front of an endpoint: NotHandled as soon as one rejects.
ChainPasses(b, upd) == \A i \in DOMAIN b.filters : Passes(b.filters[i], upd)

\* An endpoint always yields Handled or Failed.
EndpointResult(ok) == IF ok THEN "Handled" ELSE "Failed"

ChildAt_Reversed(i) == handler.branches[NBranches + 1 - i]

\* The i-th child a branch node tries.
ChildAt(i) == handler.branches[i]

\* A branch node stops at the first child whose result is not NotHandled.
BranchStops(result) == result # "NotHandled"

HooksFor_ErrorOnUnhandled(o) ==
    IF o \in {"Failed", "NotHandled"} THEN {error_handler} ELSE {}

\* The hooks the dispatcher invokes for the outcome of one evaluation.
HooksFor(o) ==
    IF o = "Failed" THEN {error_handler}
    ELSE IF o = "NotHandled" THEN {default_handler}
    ELSE {}

LoopContinues_AbortOnFailed(o) == o # "Failed"

\* Whether the main loop goes on after an evaluation with this outcome.
LoopContinues(o) == TRUE

\* ---------------------------------------------------------------- REPL
\* repl_with_listener: Update::filter_message().branch(dptree::endpoint(handler)).
repl_handler ==
    [filter   |-> "message",
     branches |-> << [filters |-> <<>>, endpoint |-> "handler"] >>]

ReplRootPasses_Any(upd) == TRUE

\* The root of the REPL's tree: Update::filter_message().
ReplRootPasses(upd) == Passes(repl_handler.filter, upd)

\* The i-th child of the REPL's tree.
ReplChildAt(i) == repl_handler.branches[i]

\* --------------------------------------------- shutdown_check_timeout_for
MinShutdownCheckTimeout == 1

DZERO == 0

Durations == 0..DurationMax

\* Option<Duration>: None is the empty sequence, Some(d) the sequence of d.
Some(d) == <<d>>

Hints == {<<>>} \cup {Some(d) : d \in Durations}

UnwrapOr(opt, default) == IF opt = <<>> THEN default ELSE opt[1]

SaturatingAdd_Wrapping(a, b) == (a + b) % (DurationMax + 1)

\* Duration::saturating_add: Duration::MAX instead of an overflow.
SaturatingAdd(a, b) == IF a + b > DurationMax THEN DurationMax ELSE a + b

ShutdownCheckTimeoutFor(h) ==
    SaturatingAdd(UnwrapOr(h, DZERO), MinShutdownCheckTimeout)

\* --------------------------------------------------------------------- Init
InitShutdown ==
    /\ inner = AsU8("Idle")
    /\ waiters = {}
    /\ cpc = [c \in Callers |-> "init"]
    /\ lpc = [l \in Loops |-> "idle"]
    /\ pending = [l \in Loops |-> 0]
    /\ ustat = [u \in Updates |-> "new"]
    /\ okCycle = [c \in Callers |-> 0]
    /\ resolvedAt = [c \in Callers |-> 0]
    /\ snap = [c \in Callers |-> {}]

InitDialogue ==
    /\ storage = [c \in ChatIds |-> "None"]
    /\ hpc = [h \in Handles |-> "ready"]
    /\ last = Returned(0, "none", "Unit")
    /\ lastWrite = [c \in ChatIds |-> "None"]
    /\ lastWriter = [c \in ChatIds |-> WrittenBy("none", 0)]
    /\ backend = Called("none", TRUE)

InitTree ==
    /\ evals = <<>>
    /\ aborted = FALSE

InitTimeout ==
    /\ hint = <<>>
    /\ timeout = <<>>

Init == InitShutdown /\ InitDialogue /\ InitTree /\ InitTimeout

\* --------------------------------------------------- ShutdownToken callers
\* ShutdownToken::shutdown: one compare_exchange, then Ok(future) or Err.
Shutdown(c) ==
    /\ cpc[c] = "init"
    /\ \A k \in Callers : k < c => cpc[k] # "init"
    /\ LET r == ShutdownInner(inner)
           ret == ShutdownReturns(r.res)
       IN  /\ inner' = r.inner
           /\ cpc' = [cpc EXCEPT ![c] = ret]
           /\ okCycle' = [okCycle EXCEPT ![c] = IF ret = "ok" THEN cycle ELSE 0]
           /\ snap' = [snap EXCEPT ![c] = IF ret = "ok" THEN InFlight ELSE {}]
    /\ UNCHANGED <<waiters, lpc, pending, ustat, resolvedAt>>
    /\ UNCHANGED <<dvars, tvars, qvars>>

\* First poll of the returned async block: notified() is created and awaited,
\* which registers the future on the Notify. notify_waiters() stores no permit,
\* so a notification sent before this step is not seen.
Await(c) ==
    /\ cpc[c] = "ok"
    /\ cpc' = [cpc EXCEPT ![c] = "waiting"]
    /\ waiters' = waiters \cup {c}
    /\ UNCHANGED <<inner, lpc, pending, ustat, okCycle, resolvedAt, snap>>
    /\ UNCHANGED <<dvars, tvars, qvars>>

\* ------------------------------------------------------ the dispatcher loop
StartDispatching(l) ==
    /\ lpc[l] = "idle"
    /\ \A k \in Loops : k < l => lpc[k] # "idle"
    /\ LET r == StartDispatchingCas(inner)
       IN  /\ inner' = r.inner
           /\ lpc' = [lpc EXCEPT ![l] = IF r.ok THEN "wait" ELSE "panicked"]
    /\ UNCHANGED <<waiters, cpc, pending, ustat, okCycle, resolvedAt, snap>>
    /\ UNCHANGED <<dvars, tvars, qvars>>

\* The loop's wait on the update source ends with the next update ...
LoopNextUpdate(l) ==
    /\ lpc[l] = "wait"
    /\ \E u \in Updates :
        /\ ustat[u] = "new"
        /\ \A v \in Updates : v < u => ustat[v] # "new"
        /\ ustat' = [ustat EXCEPT ![u] = "taken"]
        /\ pending' = [pending EXCEPT ![l] = u]
    /\ lpc' = [lpc EXCEPT ![l] = "check"]
    /\ UNCHANGED <<inner, waiters, cpc, okCycle, resolvedAt, snap>>
    /\ UNCHANGED <<dvars, tvars, qvars>>

\* ... or with the shutdown-check timeout ...
LoopNextTimeout(l) ==
    /\ lpc[l] = "wait"
    /\ lpc' = [lpc EXCEPT ![l] = "check"]
    /\ UNCHANGED <<inner, waiters, cpc, pending, ustat, okCycle, resolvedAt, snap>>
    /\ UNCHANGED <<dvars, tvars, qvars>>

\* ... or with end-of-stream.
LoopNextEnd(l) ==
    /\ lpc[l] = "wait"
    /\ lpc' = [lpc EXCEPT ![l] = "drain"]
    /\ UNCHANGED <<inner, waiters, cpc, pending, ustat, okCycle, resolvedAt, snap>>
    /\ UNCHANGED <<dvars, tvars, qvars>>

\* The loop observes the shutdown state: on ShuttingDown it stops intake (the
\* update it holds is not accepted), otherwise the update starts its evaluation.
LoopCheck(l) ==
    /\ lpc[l] = "check"
    /\ IF IsShuttingDown(inner)
       THEN /\ lpc' = [lpc EXCEPT ![l] = "drain"]
            /\ ustat' = [u \in Updates |->
                           IF u = pending[l] THEN "rejected" ELSE ustat[u]]
       ELSE /\ lpc' = [lpc EXCEPT ![l] = "wait"]
            /\ ustat' = [u \in Updates |->
                           IF u = pending[l] THEN "inflight" ELSE ustat[u]]
    /\ pending' = [pending EXCEPT ![l] = 0]
    /\ UNCHANGED <<inner, waiters, cpc, okCycle, resolvedAt, snap>>
    /\ UNCHANGED <<dvars, tvars, qvars>>

\* An in-flight evaluation runs to completion.
EvalFinish(u) ==
    /\ ustat[u] = "inflight"
    /\ ustat' = [ustat EXCEPT ![u] = "finished"]
    /\ UNCHANGED <<inner, waiters, cpc, lpc, pending, okCycle, resolvedAt, snap>>
    /\ UNCHANGED <<dvars, tvars, qvars>>

\* The loop waits for the evaluations it dispatched, then calls done().
Drain(l) ==
    /\ lpc[l] = "drain"
    /\ InFlight = {}
    /\ lpc' = [lpc EXCEPT ![l] = "done_load"]
    /\ UNCHANGED <<inner, waiters, cpc, pending, ustat, okCycle, resolvedAt, snap>>
    /\ UNCHANGED <<dvars, tvars, qvars>>

\* done(): `if self.is_shutting_down()`
DoneLoad(l) ==
    /\ lpc[l] = "done_load"
    /\ lpc' = [lpc EXCEPT ![l] = IF DoneNotifies(inner) THEN "done_notify"
                                 ELSE "done_store"]
    /\ UNCHANGED <<inner, waiters, cpc, pending, ustat, okCycle, resolvedAt, snap>>
    /\ UNCHANGED <<dvars, tvars, qvars>>

\* done(): `self.shutdown_notify_back.notify_waiters()`
DoneNotify(l) ==
    /\ lpc[l] = "done_notify"
    /\ cpc' = [c \in Callers |-> IF c \in waiters THEN "resolved" ELSE cpc[c]]
    /\ resolvedAt' = [c \in Callers |-> IF c \in waiters THEN cycle ELSE resolvedAt[c]]
    /\ waiters' = {}
    /\ lpc' = [lpc EXCEPT ![l] = "done_store"]
    /\ UNCHANGED <<inner, pending, ustat, okCycle, snap>>
    /\ UNCHANGED <<dvars, tvars, qvars>>

\* done(): `self.dispatcher_state.store(ShutdownState::Idle)`
DoneStore(l) ==
    /\ lpc[l] = "done_store"
    /\ inner' = DoneStored(inner)
    /\ lpc' = [lpc EXCEPT ![l] = "finished"]
    /\ snap' = [c \in Callers |-> {}]
    /\ UNCHANGED <<waiters, cpc, pending, ustat, okCycle, resolvedAt>>
    /\ UNCHANGED <<dvars, tvars, qvars>>

LoopStep ==
    \E l \in Loops :
        \/ LoopNextUpdate(l)
        \/ LoopNextTimeout(l)
        \/ LoopNextEnd(l)
        \/ LoopCheck(l)
        \/ Drain(l)
        \/ DoneLoad(l)
        \/ DoneNotify(l)
        \/ DoneStore(l)

EvalStep == \E u \in Updates : EvalFinish(u)

\* ---------------------------------------------------- Dialogue operations
\* Every storage call may fail with the backend's error; a failed call leaves
\* the storage as it was. `backend` records the call made and how it ended.
Get(h) ==
    /\ hpc[h] = "ready"
    /\ UNCHANGED <<svars, tvars, qvars>>
    /\ \E ok \in BOOLEAN :
        /\ backend' = Called("get", ok)
        /\ last' = Returned(h, "get",
                     GetReturns(BackendGet(ok, storage, ChatOf(h))))
    /\ UNCHANGED <<storage, hpc, lastWrite, lastWriter>>

\* get_or_default: `self.get().await?` ...
GetOrDefaultGet(h) ==
    /\ hpc[h] = "ready"
    /\ UNCHANGED <<svars, tvars, qvars>>
    /\ \E ok \in BOOLEAN :
        /\ backend' = Called("get", ok)
        /\ LET r == GetOrDefaultRead(GetReturns(BackendGet(ok, storage, ChatOf(h))))
           IN  IF r = "write"
               THEN /\ hpc' = [hpc EXCEPT ![h] = "god_write"]
                    /\ UNCHANGED last
               ELSE /\ last' = Returned(h, "get_or_default", r)
                    /\ UNCHANGED hpc
    /\ UNCHANGED <<storage, lastWrite, lastWriter>>

\* ... then, on None, `update_dialogue(self.chat_id, D::default()).await?`
GetOrDefaultUpdate(h) ==
    /\ hpc[h] = "god_write"
    /\ UNCHANGED <<svars, tvars, qvars>>
    /\ hpc' = [hpc EXCEPT ![h] = "ready"]
    /\ \E ok \in BOOLEAN :
        /\ backend' = Called("update", ok)
        /\ last' = Returned(h, "get_or_default", GetOrDefaultReturns(BackendUnit(ok)))
        /\ IF ok
           THEN /\ storage' = GetOrDefaultWrite(storage, ChatOf(h))
                /\ lastWrite' = [lastWrite EXCEPT ![ChatOf(h)] = Default]
                /\ lastWriter' = [lastWriter EXCEPT ![ChatOf(h)] = WrittenBy("get_or_default", h)]
           ELSE UNCHANGED <<storage, lastWrite, lastWriter>>

Update(h, state) ==
    /\ hpc[h] = "ready"
    /\ UNCHANGED <<svars, tvars, qvars>>
    /\ \E ok \in BOOLEAN :
        /\ backend' = Called("update", ok)
        /\ last' = Returned(h, "update", UpdateReturns(BackendUnit(ok)))
        /\ IF ok
           THEN /\ storage' = DialogueUpdate(storage, ChatOf(h), state)
                /\ lastWrite' = [lastWrite EXCEPT ![ChatOf(h)] = state]
                /\ lastWriter' = [lastWriter EXCEPT ![ChatOf(h)] = WrittenBy("update", h)]
           ELSE UNCHANGED <<storage, lastWrite, lastWriter>>
    /\ UNCHANGED hpc

Reset(h) ==
    /\ hpc[h] = "ready"
    /\ UNCHANGED <<svars, tvars, qvars>>
    /\ \E ok \in BOOLEAN :
        /\ backend' = Called("update", ok)
        /\ last' = Returned(h, "reset", ResetReturns(BackendUnit(ok)))
        /\ IF ok
           THEN /\ storage' = DialogueReset(storage, ChatOf(h))
                /\ lastWrite' = [lastWrite EXCEPT ![ChatOf(h)] = Default]
                /\ lastWriter' = [lastWriter EXCEPT ![ChatOf(h)] = WrittenBy("reset", h)]
           ELSE UNCHANGED <<storage, lastWrite, lastWriter>>
    /\ UNCHANGED hpc

Exit(h) ==
    /\ hpc[h] = "ready"
    /\ UNCHANGED <<svars, tvars, qvars>>
    /\ \E ok \in BOOLEAN :
        /\ backend' = Called("remove", ok)
        /\ last' = Returned(h, "exit", ExitReturns(BackendUnit(ok)))
        /\ IF ok
           THEN /\ storage' = DialogueExit(storage, ChatOf(h))
                /\ lastWrite' = [lastWrite EXCEPT ![ChatOf(h)] =
                                   IF storage[ChatOf(h)] # "None" THEN "Removed"
                                   ELSE lastWrite[ChatOf(h)]]
                /\ lastWriter' = [lastWriter EXCEPT ![ChatOf(h)] = WrittenBy("exit", h)]
           ELSE UNCHANGED <<storage, lastWrite, lastWriter>>
    /\ UNCHANGED hpc

\* ------------------------------------------- dispatcher: tree evaluation
\* The source delivers the next update to the main loop, which starts its
\* evaluation; evaluations run concurrently.
Deliver(kind) ==
    /\ ~aborted
    /\ Len(evals) < NEvals
    /\ evals' = Append(evals, [upd |-> kind, pc |-> "root", child |-> 0,
                               outcome |-> "None", ran |-> {}, hooks |-> {}])
    /\ UNCHANGED aborted
    /\ UNCHANGED <<svars, dvars, qvars>>

\* The root of the tree: Update::filter_message().
EvalRoot(u) ==
    /\ ~aborted
    /\ u \in DOMAIN evals
    /\ evals[u].pc = "root"
    /\ evals' = [evals EXCEPT ![u] =
            IF Passes(handler.filter, @.upd)
            THEN [@ EXCEPT !.pc = "branch", !.child = 1]
            ELSE [@ EXCEPT !.pc = "hook", !.outcome = "NotHandled"]]
    /\ UNCHANGED aborted
    /\ UNCHANGED <<svars, dvars, qvars>>

\* The branch node tries its current child: the child's filters, and its
\* endpoint when they all pass; the endpoint may fail.
EvalChild(u) ==
    /\ ~aborted
    /\ u \in DOMAIN evals
    /\ evals[u].pc = "branch"
    /\ \E ok \in BOOLEAN :
        LET e == evals[u]
            b == ChildAt(e.child)
            passes == ChainPasses(b, e.upd)
            result == IF passes THEN EndpointResult(ok) ELSE "NotHandled"
            e1 == [e EXCEPT !.ran = IF passes THEN @ \cup {b.endpoint} ELSE @]
        IN evals' = [evals EXCEPT ![u] =
               IF BranchStops(result)
               THEN [e1 EXCEPT !.outcome = result, !.pc = "hook"]
               ELSE IF e.child < NBranches
               THEN [e1 EXCEPT !.child = @ + 1]
               ELSE [e1 EXCEPT !.outcome = "NotHandled", !.pc = "hook"]]
    /\ UNCHANGED aborted
    /\ UNCHANGED <<svars, dvars, qvars>>

\* The dispatcher acts on the outcome of the evaluation.
Hook(u) ==
    /\ ~aborted
    /\ u \in DOMAIN evals
    /\ evals[u].pc = "hook"
    /\ evals' = [evals EXCEPT ![u] =
            [@ EXCEPT !.hooks = HooksFor(evals[u].outcome), !.pc = "done"]]
    /\ aborted' = ~LoopContinues(evals[u].outcome)
    /\ UNCHANGED <<svars, dvars, qvars>>

\* ------------------------------------------------ REPL: tree evaluation
\* The same dispatcher, built by repl_with_listener over the REPL's tree.
ReplDeliver(kind) ==
    /\ ~aborted
    /\ Len(evals) < NEvals
    /\ evals' = Append(evals, [upd |-> kind, pc |-> "root", child |-> 0,
                               outcome |-> "None", ran |-> {}, hooks |-> {}])
    /\ UNCHANGED aborted
    /\ UNCHANGED <<svars, dvars, qvars>>

ReplEvalRoot(u) ==
    /\ ~aborted
    /\ u \in DOMAIN evals
    /\ evals[u].pc = "root"
    /\ evals' = [evals EXCEPT ![u] =
            IF ReplRootPasses(@.upd)
            THEN [@ EXCEPT !.pc = "branch", !.child = 1]
            ELSE [@ EXCEPT !.pc = "hook", !.outcome = "NotHandled"]]
    /\ UNCHANGED aborted
    /\ UNCHANGED <<svars, dvars, qvars>>

\* The only child is the endpoint that calls the user's handler.
ReplEvalChild(u) ==
    /\ ~aborted
    /\ u \in DOMAIN evals
    /\ evals[u].pc = "branch"
    /\ \E ok \in BOOLEAN :
        LET e == evals[u]
            b == ReplChildAt(e.child)
            passes == ChainPasses(b, e.upd)
            result == IF passes THEN EndpointResult(ok) ELSE "NotHandled"
            e1 == [e EXCEPT !.ran = IF passes THEN @ \cup {b.endpoint} ELSE @]
        IN evals' = [evals EXCEPT ![u] =
               IF BranchStops(result)
               THEN [e1 EXCEPT !.outcome = result, !.pc = "hook"]
               ELSE IF e.child < Len(repl_handler.branches)
               THEN [e1 EXCEPT !.child = @ + 1]
               ELSE [e1 EXCEPT !.outcome = "NotHandled", !.pc = "hook"]]
    /\ UNCHANGED aborted
    /\ UNCHANGED <<svars, dvars, qvars>>

\* The dispatcher acts on the outcome: a handler error goes to its error
\* handler, which logs it.
ReplHook(u) ==
    /\ ~aborted
    /\ u \in DOMAIN evals
    /\ evals[u].pc = "hook"
    /\ evals' = [evals EXCEPT ![u] =
            [@ EXCEPT !.hooks = HooksFor(evals[u].outcome), !.pc = "done"]]
    /\ aborted' = ~LoopContinues(evals[u].outcome)
    /\ UNCHANGED <<svars, dvars, qvars>>

\* --------------------------------------------- shutdown_check_timeout_for
\* The listener reports its timeout hint.
TimeoutHint(h) ==
    /\ <<hint, timeout>> # <<h, <<>>>>
    /\ hint' = h
    /\ timeout' = <<>>
    /\ UNCHANGED <<svars, dvars, tvars>>

\* shutdown_check_timeout_for(update_listener).
ShutdownCheckTimeout ==
    /\ timeout = <<>>
    /\ timeout' = <<ShutdownCheckTimeoutFor(hint)>>
    /\ UNCHANGED hint
    /\ UNCHANGED <<svars, dvars, tvars>>

Next ==
    \/ \E c \in Callers : Shutdown(c)
    \/ \E c \in Callers : Await(c)
    \/ \E l \in Loops : StartDispatching(l)
    \/ LoopStep
    \/ EvalStep

Spec == Init /\ [][Next]_vars

\* The loop and the evaluations it spawned are scheduled by the runtime; the
\* callers of shutdown() and dispatch() are not obliged to do anything.
FairSpec == Spec /\ WF_vars(LoopStep) /\ WF_vars(EvalStep)

\* As FairSpec, and every caller that holds a shutdown future awaits it.
FairAwaitSpec == FairSpec /\ \A c \in Callers : WF_vars(Await(c))

DialogueNext ==
    \/ \E h \in Handles : Get(h)
    \/ \E h \in Handles : GetOrDefaultGet(h)
    \/ \E h \in Handles : GetOrDefaultUpdate(h)
    \/ \E h \in Handles, state \in DStates : Update(h, state)
    \/ \E h \in Handles : Reset(h)
    \/ \E h \in Handles : Exit(h)

DialogueSpec == Init /\ [][DialogueNext]_vars

TreeNext ==
    \/ \E kind \in UpdateKinds : Deliver(kind)
    \/ \E u \in Evals : EvalRoot(u)
    \/ \E u \in Evals : EvalChild(u)
    \/ \E u \in Evals : Hook(u)

TreeSpec == Init /\ [][TreeNext]_vars

ReplNext ==
    \/ \E kind \in UpdateKinds : ReplDeliver(kind)
    \/ \E u \in Evals : ReplEvalRoot(u)
    \/ \E u \in Evals : ReplEvalChild(u)
    \/ \E u \in Evals : ReplHook(u)

ReplSpec == Init /\ [][ReplNext]_vars

TimeoutNext ==
    \/ \E h \in Hints : TimeoutHint(h)
    \/ ShutdownCheckTimeout

TimeoutSpec == Init /\ [][TimeoutNext]_vars

\* ================================================================== claims
CallBy(c) == cpc[c] = "init" /\ cpc'[c] # "init"

\* C1: every shutdown() call that returned Ok has its future eventually
\* resolved, whenever the caller starts awaiting it (before, during or after
\* done()); stated for callers that do await (FairAwaitSpec).
C1_EveryOkWaiterResolved ==
    \A c \in Callers : (cpc[c] \in {"ok", "waiting"}) ~> (cpc[c] = "resolved")

\* C2: shutdown() called while the state is Idle returns IdleShutdownError,
\* yields no future (the call is never registered on the Notify) and leaves
\* the state Idle.
C2_IdleShutdownErrs ==
    /\ [][\A c \in Callers :
            (CallBy(c) /\ Load(inner) = "Idle")
                => (cpc'[c] = "err" /\ Load(inner') = "Idle")]_vars
    /\ [][\A c \in Callers :
            cpc[c] = "err" => (cpc'[c] = "err" /\ c \notin waiters')]_vars

C2_Witness == \E c \in Callers : cpc[c] = "err" /\ Load(inner) = "Idle" /\ cycle = 0

\* C3: shutdown() called while Running moves the state to ShuttingDown in the
\* same atomic step and returns Ok with a future; is_shutting_down() then stays
\* true until done() stores Idle.
C3_RunningShutdown ==
    /\ [][\A c \in Callers :
            (CallBy(c) /\ Load(inner) = "Running")
                => (cpc'[c] = "ok" /\ Load(inner') = "ShuttingDown"
                    /\ IsShuttingDown(inner'))]_vars
    /\ [][(Load(inner) = "ShuttingDown" /\ inner' # inner)
            => (Load(inner') = "Idle"
                /\ \E l \in Loops : lpc[l] = "done_store" /\ lpc'[l] = "finished")]_vars
    /\ [][(Load(inner) = "ShuttingDown") => IsShuttingDown(inner)]_vars

C3_Witness ==
    /\ cpc[1] = "ok"
    /\ \A c \in Callers : c # 1 => cpc[c] = "init"
    /\ IsShuttingDown(inner)

\* C4: two shutdown() calls made in the same run of the dispatcher both return
\* Ok, the state moves Running -> ShuttingDown once, and both futures resolve
\* at the one done() of that run: when one of them has been resolved, the other
\* is not left registered and unresolved, and both were resolved by that run.
C4_BothResolveAtSameDone ==
    \A c1, c2 \in Callers :
        (c1 # c2 /\ okCycle[c1] >= 1 /\ okCycle[c1] = okCycle[c2]
            /\ cpc[c1] = "resolved")
        => /\ resolvedAt[c1] = okCycle[c1]
           /\ cpc[c2] # "waiting"
           /\ cpc[c2] = "resolved" => resolvedAt[c2] = resolvedAt[c1]

\* C5: a future returned by shutdown() is resolved only by done() running on
\* the ShuttingDown state, after every evaluation has finished, those in flight
\* at the call included.
C5_NoEarlyRelease ==
    [][\A c \in Callers :
        (cpc[c] # "resolved" /\ cpc'[c] = "resolved")
            => /\ InFlight = {}
               /\ snap[c] \subseteq Finished
               /\ Load(inner) = "ShuttingDown"
               /\ \E l \in Loops : lpc[l] = "done_notify"]_vars

C5_Witness == \E c \in Callers : cpc[c] = "resolved" /\ snap[c] # {}

\* C6: no evaluation starts while the state is ShuttingDown (an update is
\* accepted in the step that still observes Running, so it left the source
\* before the transition); evaluations in flight are not cancelled: they only
\* ever finish, and done() runs with none in flight.
C6_NoIntakeAfterShutdown ==
    /\ [][\A u \in Updates :
            (ustat[u] # "inflight" /\ ustat'[u] = "inflight")
                => (Load(inner) # "ShuttingDown" /\ ustat[u] = "taken")]_vars
    /\ [][\A u \in Updates :
            ustat[u] = "inflight" => ustat'[u] \in {"inflight", "finished"}]_vars
    /\ [][\A l \in Loops :
            lpc'[l] \in {"done_load", "done_notify", "done_store"}
                => {u \in Updates : ustat'[u] = "inflight"} = {}]_vars

C6_Witness ==
    /\ Load(inner) = "ShuttingDown"
    /\ \E u, v \in Updates : ustat[u] = "inflight" /\ ustat[v] = "rejected"

\* C7: start_dispatching() succeeds exactly when the state is Idle and then
\* stores Running; otherwise it panics and leaves the state as it was; at most
\* one dispatcher loop is between its start_dispatching() and the end of its
\* done() at any time.
C7_SingleLoop ==
    /\ [][\A l \in Loops :
            (lpc[l] = "idle" /\ lpc'[l] # "idle")
                => IF Load(inner) = "Idle"
                   THEN lpc'[l] = "wait" /\ Load(inner') = "Running"
                   ELSE lpc'[l] = "panicked" /\ inner' = inner]_vars
    /\ [][Cardinality({l \in Loops : lpc'[l] \in ActivePcs}) <= 1]_vars

C7_Witness ==
    \E l1, l2 \in Loops : lpc[l1] \in ActivePcs /\ lpc[l2] = "panicked"

\* C8: done() leaves the state Idle whether the loop ended on end-of-stream
\* or on a shutdown; with no loop running shutdown() reports the idle error and
\* start_dispatching() succeeds.
C8_DoneLeavesIdle ==
    /\ [][\A l \in Loops :
            (lpc[l] = "done_store" /\ lpc'[l] = "finished")
                => Load(inner') = "Idle"]_vars
    /\ [][({l \in Loops : lpc'[l] \in ActivePcs} = {})
            => /\ Load(inner') = "Idle"
               /\ ShutdownReturns(ShutdownInner(inner').res) = "err"
               /\ StartDispatchingCas(inner').ok]_vars

\* The first run ended on end-of-stream (no shutdown() had been called yet);
\* a second start_dispatching() then succeeded and that run ended on a
\* shutdown; a shutdown() called after it failed with the idle error.
C8_Witness ==
    /\ lpc[1] = "finished" /\ lpc[2] = "finished"
    /\ cpc[1] = "resolved" /\ okCycle[1] = 2 /\ resolvedAt[1] = 2
    /\ cpc[2] = "err"

\* C9: the request is recorded by the shutdown() call itself: the state is
\* ShuttingDown as soon as the call has returned Ok for a Running dispatcher,
\* and from ShuttingDown the loop reaches Idle whether or not any caller ever
\* polls its future (FairSpec gives the callers no fairness).
C9_TakesEffectAtCall ==
    /\ [][\A c \in Callers :
            (CallBy(c) /\ cpc'[c] = "ok") => Load(inner') = "ShuttingDown"]_vars
    /\ (Load(inner) = "ShuttingDown") ~> (Load(inner) = "Idle")

C9_Witness ==
    /\ Load(inner) = "Idle"
    /\ ActiveLoops = {}
    /\ waiters = {}
    /\ \E c \in Callers : cpc[c] = "ok"
    /\ \A c \in Callers : cpc[c] \in {"init", "ok", "err"}

\* C10: a get() that succeeds on a chat id whose last successful write stored
\* state S returns Some(S), whatever was done on other chat ids in between.
C10_UpdateThenGet ==
    (last.op = "get" /\ last.res # "Err" /\ lastWrite[ChatOf(last.h)] \in DStates)
        => last.res = lastWrite[ChatOf(last.h)]

C10_Witness ==
    /\ last.op = "get"
    /\ last.res = "AwaitingName"
    /\ \E c \in ChatIds : c # ChatOf(last.h) /\ lastWrite[c] \in DStates

\* C11: after exit() has removed an existing record, the record is gone (no
\* history is kept) and a get() that succeeds on that chat id returns None
\* until the next write.
C11_ExitThenGet ==
    /\ \A c \in ChatIds : lastWriter[c].op = "exit" => storage[c] = "None"
    /\ (last.op = "get" /\ last.res # "Err"
            /\ lastWrite[ChatOf(last.h)] = "Removed")
        => last.res = "None"

C11_Witness ==
    /\ last.op = "get"
    /\ last.res = "None"
    /\ lastWrite[ChatOf(last.h)] = "Removed"

\* C12: get_or_default() that finds no record stores the default and returns
\* it; one that finds a record S returns S; whenever it has returned Ok(d) the
\* storage holds d for that chat id, and a get() that follows the materialized
\* default returns Some(default).
C12_GetOrDefault ==
    /\ [][\A h \in Handles :
            (hpc[h] = "god_write" /\ hpc'[h] = "ready" /\ backend'.ok)
                => /\ last' = Returned(h, "get_or_default", Default)
                   /\ storage'[ChatOf(h)] = Default]_vars
    /\ [][\A h \in Handles :
            (hpc[h] = "ready" /\ hpc'[h] = "god_write")
                => storage[ChatOf(h)] = "None"]_vars
    /\ [][(last'.op = "get_or_default" /\ last'.res # "Err" /\ hpc' = hpc)
            => /\ last'.res \in DStates
               /\ last'.res = storage[ChatOf(last'.h)]]_vars
    /\ [][(last'.op = "get_or_default" /\ last'.res # "Err")
            => storage'[ChatOf(last'.h)] = last'.res]_vars
    /\ [][(last'.op = "get" /\ last'.res # "Err"
             /\ lastWriter'[ChatOf(last'.h)].op = "get_or_default")
            => last'.res = Default]_vars

C12_Witness ==
    /\ last.op = "get_or_default"
    /\ last.res = Default
    /\ backend = Called("update", TRUE)
    /\ lastWriter[ChatOf(last.h)].op = "get_or_default"
    /\ storage[ChatOf(last.h)] = Default

\* C13: get_or_default() materializes the default atomically: its write of the
\* default never replaces a state S stored by a concurrent update() on the
\* same chat id.
C13_NeverOverwrites ==
    [][\A h \in Handles :
        (hpc[h] = "god_write" /\ hpc'[h] = "ready" /\ backend'.ok)
            => storage[ChatOf(h)] \notin (DStates \ {Default})]_vars

\* C14: a reset() that succeeds leaves the storage exactly as update(default)
\* would, with the default state recorded for its chat id, whatever was there.
C14_ResetIsUpdateDefault ==
    /\ [][(last'.op = "reset" /\ last'.res = "Unit" /\ hpc' = hpc)
            => /\ storage' = DialogueUpdate(storage, ChatOf(last'.h), Default)
               /\ storage'[ChatOf(last'.h)] = Default
               /\ \A c \in ChatIds : c # ChatOf(last'.h) => storage'[c] = storage[c]]_vars
    /\ [][\A c \in ChatIds : lastWriter'[c].op = "reset" => storage'[c] = Default]_vars

C14_Witness ==
    /\ last.op = "reset"
    /\ last.res = "Unit"
    /\ lastWriter[ChatOf(last.h)].op = "reset"
    /\ storage[ChatOf(last.h)] = Default
    /\ \E c \in ChatIds : c # ChatOf(last.h) /\ storage[c] \in DStates \ {Default}

\* C15: when the storage call of an operation fails, the operation returns
\* that error (never a value), and get_or_default() whose read failed does not
\* go on to write.
C15_ErrorsPropagate ==
    (~backend.ok)
        => /\ last.res = "Err"
           /\ hpc[last.h] = "ready"
           /\ last.op \in (CASE backend.call = "get" -> {"get", "get_or_default"}
                             [] backend.call = "update" ->
                                    {"get_or_default", "update", "reset"}
                             [] backend.call = "remove" -> {"exit"})

C15_Witness ==
    /\ backend = Called("update", FALSE)
    /\ last.op = "get_or_default"
    /\ last.res = "Err"

\* C16: the storage holds at most one record per chat id, and it is exactly
\* the state of the most recent successful write for that id (none after a
\* removal or before any write).
C16_OneRecordLastWrite ==
    /\ storage \in [ChatIds -> DStates \cup {"None"}]
    /\ \A c \in ChatIds :
        storage[c] = IF lastWrite[c] \in DStates THEN lastWrite[c] ELSE "None"

C16_Witness ==
    \E c1, c2 \in ChatIds :
        /\ c1 # c2
        /\ storage[c1] = "Done" /\ lastWriter[c1].op = "update"
        /\ lastWrite[c2] = "Removed"

\* ------------------------------------------- shutdown racing with done()
\* The call that moved Running to ShuttingDown in the current dispatch cycle:
\* the first call of the cycle that returned Ok (callers call in index order).
Mover(c) ==
    /\ okCycle[c] >= 1
    /\ okCycle[c] = cycle
    /\ \A k \in Callers : k < c => okCycle[k] # cycle

\* C21: a shutdown() that moved Running to ShuttingDown before done() stored
\* Idle has its future resolved by that done(): when done() stores Idle, the
\* future of that call, if it has been polled, is not left waiting.
C21_RacingShutdownNotified ==
    [][\A l \in Loops :
        (lpc[l] = "done_store" /\ lpc'[l] = "finished")
            => \A c \in Callers : Mover(c) => c \notin waiters]_vars

Legal ==
    {<<"Idle", "Running">>, <<"Running", "ShuttingDown">>,
     <<"Running", "Idle">>, <<"ShuttingDown", "Idle">>}

\* C22: the state only goes Idle -> Running (start_dispatching), Running ->
\* ShuttingDown (shutdown), Running -> Idle and ShuttingDown -> Idle (done),
\* each by the operation named; shutdown() never moves the state to Idle.
C22_OnlyLegalTransitions ==
    [][LET from == Load(inner)
           to == Load(inner')
       IN  from # to =>
            /\ <<from, to>> \in Legal
            /\ to = "Running" =>
                   \E l \in Loops : lpc[l] = "idle" /\ lpc'[l] = "wait"
            /\ to = "ShuttingDown" =>
                   \E c \in Callers : CallBy(c) /\ cpc'[c] = "ok"
            /\ to = "Idle" =>
                   /\ \E l \in Loops : lpc[l] = "done_store" /\ lpc'[l] = "finished"
                   /\ \A c \in Callers : ~CallBy(c)]_vars

\* All four transitions were taken: the first dispatch ended on end-of-stream
\* with no shutdown() called (Running -> Idle), the second was started and
\* ended on the first caller's shutdown().
C22_Witness ==
    /\ lpc[1] = "finished" /\ lpc[2] = "finished"
    /\ Load(inner) = "Idle"
    /\ okCycle[1] = 2
    /\ cpc[2] = "init"

\* ---------------------------------------------------- Dialogue: frame
\* C23: an operation of a handle bound to chat id c changes no record but
\* that of c, and a successful get() returns the record the shared storage
\* holds for c, whichever clone wrote it.
C23_OnlyOwnRecord ==
    /\ [][\A c \in ChatIds :
            storage'[c] # storage[c] =>
                (ChatOf(last'.h) = c /\ lastWriter'[c].h = last'.h)]_vars
    /\ [][(last'.op = "get" /\ last'.res # "Err" /\ backend'.call = "get")
            => last'.res = storage[ChatOf(last'.h)]]_vars

\* A get() through one clone returned the state written through the other
\* clone, while the record of the other chat id stayed as it was stored.
C23_Witness ==
    /\ last.op = "get" /\ last.res = "Done"
    /\ lastWriter[ChatOf(last.h)].h \notin {0, last.h}
    /\ lastWriter[ChatOf(last.h)].op = "update"
    /\ \E c \in ChatIds : c # ChatOf(last.h) /\ storage[c] = "AwaitingName"

\* ----------------------------------------------------------- handler tree
\* The first child, in the order of registration, whose filters all pass the
\* update (0: the root filter or every child rejects it).
FirstMatch(upd) ==
    IF ~Passes(handler.filter, upd) \/ \A i \in 1..NBranches : ~ChainPasses(handler.branches[i], upd)
    THEN 0
    ELSE CHOOSE i \in 1..NBranches :
            /\ ChainPasses(handler.branches[i], upd)
            /\ \A j \in 1..(i - 1) : ~ChainPasses(handler.branches[j], upd)

Evaluated(u) == evals[u].pc \in {"hook", "done"}

\* C17: a branch tries its children in the order of their registration and
\* stops at the first one that does not yield NotHandled: at most one endpoint
\* runs per update, it is the endpoint of the first child whose filters pass
\* (the endpoints of the children before it, which rejected, and of the
\* children after it never run), and the outcome is then Handled or Failed.
C17_FirstMatchWins ==
    \A u \in DOMAIN evals :
        LET e == evals[u]
            m == FirstMatch(e.upd)
        IN /\ Cardinality(e.ran) <= 1
           /\ e.pc = "branch" => \A i \in 1..(e.child - 1) :
                  ~ChainPasses(handler.branches[i], e.upd)
           /\ Evaluated(u) =>
                  IF m = 0
                  THEN e.ran = {} /\ e.outcome = "NotHandled"
                  ELSE /\ e.ran = {handler.branches[m].endpoint}
                       /\ e.outcome \in {"Handled", "Failed"}

Done(u, upd, o) ==
    /\ u \in DOMAIN evals
    /\ evals[u].pc = "done" /\ evals[u].upd = upd /\ evals[u].outcome = o

\* A dice message outside a group: the first child rejects it, the second
\* handles it; and a dice message in a group: the first child handles it and
\* the dice endpoint does not run.
C17_Witness ==
    /\ Done(1, {"message", "dice"}, "Handled") /\ evals[1].ran = {"dice_value"}
    /\ Done(2, {"message", "group", "dice"}, "Handled")
    /\ evals[2].ran = {"group_chat"}

TreeStep(u) == EvalRoot(u) \/ EvalChild(u) \/ Hook(u)

\* C18: a failed endpoint is contained to its own update: the error hook is
\* invoked for it, the main loop is not taken down, and after it every
\* evaluation under way can still take its next step and the source can still
\* deliver the next update.
C18_FailureContained ==
    /\ ~aborted
    /\ \A u \in DOMAIN evals :
        (evals[u].pc = "done" /\ evals[u].outcome = "Failed") =>
            /\ error_handler \in evals[u].hooks
            /\ \A v \in DOMAIN evals : evals[v].pc # "done" => ENABLED TreeStep(v)
            /\ Len(evals) < NEvals => ENABLED Deliver({"message"})

\* The first update failed in its endpoint and the error hook ran; the second
\* was evaluated to the end and handled.
C18_Witness ==
    /\ Len(evals) = 2
    /\ evals[1].pc = "done" /\ evals[1].outcome = "Failed"
    /\ evals[1].hooks = {error_handler}
    /\ evals[2].pc = "done" /\ evals[2].outcome = "Handled"

\* C19: the default hook is invoked for exactly the updates that every branch
\* of the tree rejects, and the error hook is not invoked for them; no hook is
\* invoked before the evaluation is over.
C19_DefaultHookOnUnhandled ==
    \A u \in DOMAIN evals :
        LET e == evals[u]
        IN /\ e.pc = "done" =>
               /\ default_handler \in e.hooks <=> FirstMatch(e.upd) = 0
               /\ FirstMatch(e.upd) = 0 => error_handler \notin e.hooks
               /\ e.outcome \in {"Handled", "Failed"} => default_handler \notin e.hooks
           /\ e.pc # "done" => e.hooks = {}

\* A plain text message is rejected by every branch and reported to the
\* default hook only; a failed one is not reported to the default hook.
C19_Witness ==
    /\ Done(1, {"message"}, "NotHandled") /\ evals[1].hooks = {default_handler}
    /\ Len(evals) = 2
    /\ evals[2].pc = "done" /\ evals[2].outcome = "Failed"
    /\ evals[2].hooks = {error_handler}

\* --------------------------------------------- shutdown_check_timeout_for
\* C20: the shutdown check interval is the timeout hint plus the minimum
\* interval of one second, the minimum interval with no hint, never less than
\* the minimum, and Duration::MAX where the sum would overflow.
C20_ShutdownCheckTimeout ==
    timeout # <<>> =>
        /\ hint = <<>> => timeout[1] = MinShutdownCheckTimeout
        /\ hint # <<>> =>
               \/ timeout[1] = hint[1] + MinShutdownCheckTimeout
               \/ (hint[1] + MinShutdownCheckTimeout > DurationMax
                   /\ timeout[1] = DurationMax)
        /\ timeout[1] >= MinShutdownCheckTimeout
        /\ timeout[1] <= DurationMax

\* The hint is Duration::MAX: the sum saturates.
C20_Witness ==
    /\ hint = Some(DurationMax)
    /\ timeout = Some(DurationMax)

\* ---------------------------------------------------------------- REPL
\* C24: in the REPL the user's handler runs for an update only if it is a
\* message, and then it is the only endpoint that runs; any other update is
\* NotHandled at the root; a handler error is given to the error handler
\* (logged) and the loop is not stopped.
C24_ReplMessagesOnly ==
    /\ ~aborted
    /\ \A u \in DOMAIN evals :
        LET e == evals[u]
        IN /\ e.ran \subseteq {"handler"}
           /\ "handler" \in e.ran => "message" \in e.upd
           /\ "message" \notin e.upd => e.pc \in {"root", "hook", "done"}
           /\ e.pc \in {"hook", "done"} =>
                  IF "message" \in e.upd
                  THEN e.ran = {"handler"} /\ e.outcome \in {"Handled", "Failed"}
                  ELSE e.ran = {} /\ e.outcome = "NotHandled"
           /\ (e.pc = "done" /\ e.outcome = "Failed") =>
                  /\ error_handler \in e.hooks
                  /\ Len(evals) < NEvals => ENABLED ReplDeliver({})

\* The handler failed on a message and the error was logged; the update after
\* it, not a message, was rejected at the root without reaching the handler.
C24_Witness ==
    /\ Len(evals) = 2
    /\ evals[1].pc = "done" /\ "message" \in evals[1].upd
    /\ evals[1].outcome = "Failed" /\ evals[1].hooks = {error_handler}
    /\ evals[2].pc = "done" /\ evals[2].upd = {}
    /\ evals[2].outcome = "NotHandled" /\ evals[2].ran = {}

TypeOK ==
    /\ FromU8(inner) \in ShutdownStates
    /\ waiters \subseteq Callers
    /\ cpc \in [Callers -> {"init", "ok", "waiting", "resolved", "err"}]
    /\ lpc \in [Loops -> ActivePcs \cup {"idle", "finished", "panicked"}]
    /\ pending \in [Loops -> Updates \cup {0}]
    /\ ustat \in [Updates -> {"new", "taken", "inflight", "finished", "rejected"}]
    /\ storage \in [ChatIds -> DStates \cup {"None"}]
    /\ hpc \in [Handles -> {"ready", "god_write"}]
    /\ \A c \in ChatIds :
        /\ lastWriter[c].op \in {"none", "update", "reset", "get_or_default", "exit"}
        /\ lastWriter[c].h \in Handles \cup {0}
    /\ backend.call \in {"none", "get", "update", "remove"}
    /\ Len(evals) <= NEvals
    /\ \A u \in DOMAIN evals :
        /\ evals[u].upd \in UpdateKinds
        /\ evals[u].pc \in {"root", "branch", "hook", "done"}
        /\ evals[u].child \in 0..NBranches
        /\ evals[u].outcome \in {"None", "Handled", "NotHandled", "Failed"}
        /\ evals[u].hooks \subseteq {default_handler, error_handler}
    /\ aborted \in BOOLEAN
    /\ hint \in Hints
    /\ timeout \in Hints
====
